---- MODULE Spec2Model ----
(***************************************************************************)
(* softmax (introduction-to-neural-network/15-softmax/softmax.py) and      *)
(* cross_entropy (introduction-to-neural-network/20_cross_entropy.py).     *)
(*                                                                         *)
(* Numbers are IEEE-754 binary64 values with round-to-nearest-even, the    *)
(* exponent range of binary64 (overflow to inf above 2^1024, gradual       *)
(* underflow down to 2^-1074), inf and nan, and a significand of Prec bits *)
(* instead of 53.  A finite number is s * m * 2^e.  The sign of zero is    *)
(* not tracked.  np.exp and np.log are tables of the mathematical values   *)
(* (30 significant bits) at the arguments the bounded inputs produce,      *)
(* rounded to the format like every other operation.  numpy is a 1.x      *)
(* release, where np.float_ is float64.                                    *)
(*                                                                         *)
(* A call runs in a frame holding its locals; its statements are the       *)
(* steps.  Spec is one call of either function; SpecCalls is several       *)
(* callers calling repeatedly with the same arguments, interleaved.        *)
(***************************************************************************)
EXTENDS Integers, Sequences, FiniteSets

\* ------------------------------------------------------------- bounds

\* Significand width of the model's floating-point format.
Prec == 12
\* Longest list passed to softmax.
MaxLen == 3
\* Longest list passed to cross_entropy (besides the quiz instance).
MaxLenCE == 2
\* Calls the callers of SpecCalls make with the same arguments.
MaxCalls == 3
\* Longest list and number of concurrent callers under SpecCalls.
MaxLenCalls == 2
NFrames == 2

\* ------------------------------------------------------ binary64 format

\* Exponent of the smallest subnormal, 2^-1074.
EMin == -1074
\* Largest binary exponent of a finite value (values stay below 2^1024).
EMax == 1023

NaN == [k |-> "nan", s |-> 1, m |-> 0, e |-> 0]
PInf == [k |-> "inf", s |-> 1, m |-> 0, e |-> 0]
NInf == [k |-> "inf", s |-> -1, m |-> 0, e |-> 0]
Zero == [k |-> "fin", s |-> 1, m |-> 0, e |-> 0]
Fin(s, m, e) == [k |-> "fin", s |-> s, m |-> m, e |-> e]
Inf(s) == IF s = 1 THEN PInf ELSE NInf

IsNaN(x) == x.k = "nan"
IsInf(x) == x.k = "inf"
IsFin(x) == x.k = "fin"
IsZero(x) == x.k = "fin" /\ x.m = 0

Max(a, b) == IF a >= b THEN a ELSE b
Abs(n) == IF n < 0 THEN -n ELSE n
Sgn(n) == IF n < 0 THEN -1 ELSE 1

Pow2(n) == 2^n

RECURSIVE BitLen(_)
BitLen(n) == IF n = 0 THEN 0 ELSE 1 + BitLen(n \div 2)

\* n / 2^sh rounded to the nearest integer, ties to even (sh >= 1).
RoundShift(n, sh) ==
  LET d == Pow2(sh)
      q == n \div d
      r == n % d
      h == d \div 2
  IN IF r > h \/ (r = h /\ q % 2 = 1) THEN q + 1 ELSE q

\* The format's value nearest to s * n * 2^e (n >= 0): the rounding every
\* binary64 operation ends with.
Round(s, n, e) ==
  IF n = 0 THEN Zero
  ELSE LET b == BitLen(n)
           sh == Max(b - Prec, EMin - e)
       IN IF sh <= 0
          THEN IF e + sh + Prec - 1 > EMax THEN Inf(s)
               ELSE Fin(s, n * Pow2(-sh), e + sh)
          ELSE IF sh > b + 1 THEN Zero
          ELSE LET m == RoundShift(n, sh)
                   mm == IF m = Pow2(Prec) THEN Pow2(Prec - 1) ELSE m
                   ee == IF m = Pow2(Prec) THEN e + sh + 1 ELSE e + sh
               IN IF m = 0 THEN Zero
                  ELSE IF ee + Prec - 1 > EMax THEN Inf(s)
                  ELSE Fin(s, mm, ee)

FromInt(n) == Round(Sgn(n), Abs(n), 0)
One == FromInt(1)

FNeg(x) == IF IsNaN(x) \/ IsZero(x) THEN x ELSE [x EXCEPT !.s = -x.s]

\* x + y.  An addend more than Prec + 2 binary places below the other only
\* decides the rounding direction (a sticky bit).
FAdd(x, y) ==
  IF IsNaN(x) \/ IsNaN(y) THEN NaN
  ELSE IF IsInf(x) /\ IsInf(y) THEN (IF x.s = y.s THEN x ELSE NaN)
  ELSE IF IsInf(x) THEN x
  ELSE IF IsInf(y) THEN y
  ELSE IF IsZero(x) THEN y
  ELSE IF IsZero(y) THEN x
  ELSE LET hi == IF x.e >= y.e THEN x ELSE y
           lo == IF x.e >= y.e THEN y ELSE x
           d == hi.e - lo.e
           n == IF d > Prec + 2
                THEN hi.s * hi.m * 4 + lo.s
                ELSE hi.s * hi.m * Pow2(d) + lo.s * lo.m
           e == IF d > Prec + 2 THEN hi.e - 2 ELSE lo.e
       IN Round(Sgn(n), Abs(n), e)

FSub(x, y) == FAdd(x, FNeg(y))

FMul(x, y) ==
  IF IsNaN(x) \/ IsNaN(y) THEN NaN
  ELSE IF (IsInf(x) /\ IsZero(y)) \/ (IsZero(x) /\ IsInf(y)) THEN NaN
  ELSE IF IsInf(x) \/ IsInf(y) THEN Inf(x.s * y.s)
  ELSE Round(x.s * y.s, x.m * y.m, x.e + y.e)

\* x / y as numpy divides float64 scalars: a zero divisor gives inf or nan
\* (with a RuntimeWarning), never an exception.
FDiv(x, y) ==
  IF IsNaN(x) \/ IsNaN(y) THEN NaN
  ELSE IF IsInf(x) /\ IsInf(y) THEN NaN
  ELSE IF IsInf(x) THEN Inf(x.s * y.s)
  ELSE IF IsInf(y) THEN Zero
  ELSE IF IsZero(y) THEN (IF IsZero(x) THEN NaN ELSE Inf(x.s * y.s))
  ELSE IF IsZero(x) THEN Zero
  ELSE LET la == Prec - BitLen(x.m)
           n == x.m * Pow2(la) * Pow2(Prec + 2)
           q == n \div y.m
           r == n % y.m
       IN Round(x.s * y.s, 2 * q + (IF r = 0 THEN 0 ELSE 1),
                x.e - la - (Prec + 2) - y.e - 1)

\* x < y and x <= y; false whenever an operand is nan.
FLt(x, y) ==
  /\ ~IsNaN(x) /\ ~IsNaN(y)
  /\ x # y
  /\ IF IsInf(x) THEN x.s = -1
     ELSE IF IsInf(y) THEN y.s = 1
     ELSE LET dd == FSub(x, y) IN dd.s = -1 /\ dd.m # 0
FLe(x, y) == ~IsNaN(x) /\ ~IsNaN(y) /\ (x = y \/ FLt(x, y))

\* ------------------------------------------------------------ inputs

\* Scores passed to softmax: the quiz's 5, 6, 7, and scores at which the
\* exponential underflows (-746), is the smallest subnormal (-745),
\* dominates its neighbours (40), is the largest finite one (709) and
\* overflows (710).
Scores == {-746, -745, 0, 5, 6, 7, 40, 709, 710}

\* e^x to 30 significant bits, as <<m, e>> with e^x ~ m * 2^e.
ExpTab(x) ==
  CASE x = -746 -> <<902592467, -1106>>
    [] x = -745 -> <<613375175, -1104>>
    [] x = 0 -> <<536870912, -29>>
    [] x = 5 -> <<622489907, -22>>
    [] x = 6 -> <<846051501, -21>>
    [] x = 7 -> <<574951605, -19>>
    [] x = 40 -> <<876878451, 28>>
    [] x = 709 -> <<981752408, 993>>
    [] x = 710 -> <<667169933, 995>>

\* np.exp(x): the exponential rounded to the format; inf on overflow, 0 on
\* underflow.
ExpValue == [x \in Scores |-> Round(1, ExpTab(x)[1], ExpTab(x)[2])]
Exp(x) == ExpValue[x]

SeqsUpTo(S, n) == UNION {[1..k -> S] : k \in 0..n}

\* Labels and predicted probabilities passed to cross_entropy, in tenths:
\* the label 10 is 1, the probability 4 is 0.4.
Labels == {0, 5, 10}
Probs == {0, 4, 5, 6, 9, 10}

\* The quiz call cross_entropy([1,0,1,1], [0.4,0.6,0.1,0.5]) and the call
\* with 0.9 as the third probability.
QuizY == <<10, 0, 10, 10>>
QuizP == <<4, 6, 1, 5>>
QuizP9 == <<4, 6, 9, 5>>

\* -ln(k/10) to 30 significant bits, as <<m, e>>, for k = 1..9.
LnTab(k) ==
  CASE k = 1 -> <<618095479, -28>>
    [] k = 2 -> <<864060400, -29>>
    [] k = 3 -> <<646377977, -29>>
    [] k = 4 -> <<983859682, -30>>
    [] k = 5 -> <<744261118, -30>>
    [] k = 6 -> <<548494837, -30>>
    [] k = 7 -> <<765953610, -31>>
    [] k = 8 -> <<958394255, -32>>
    [] k = 9 -> <<905039938, -33>>

\* The float64 of the decimal k/10 (a Python number converted by np.float_).
TenthValue == [k \in 0..10 |-> FDiv(FromInt(k), FromInt(10))]
FromTenths(k) == TenthValue[k]

\* 1 - k/10 as line 10 computes it from the converted k/10.
ComplementValue == [k \in 0..10 |-> FSub(One, TenthValue[k])]

\* The tenth a float strictly between 0 and 1 stands for: it is k/10
\* converted, or 1 - (10-k)/10 computed.
Tenth(x) ==
  CHOOSE k \in 1..9 : x = TenthValue[k] \/ x = ComplementValue[10 - k]

\* ln(k/10) rounded to the format, for k = 1..9.
LogValue == [k \in 1..9 |-> Round(-1, LnTab(k)[1], LnTab(k)[2])]

\* np.log(x): -inf at 0 (with a RuntimeWarning), 0 at 1, nan below 0.
Log(x) ==
  IF IsNaN(x) THEN NaN
  ELSE IF IsZero(x) THEN NInf
  ELSE IF x.s = -1 THEN NaN
  ELSE IF IsInf(x) THEN PInf
  ELSE IF x = One THEN Zero
  ELSE LogValue[Tenth(x)]

\* ------------------------------------------------------- numpy arrays

\* np.float_(Y): a new float64 array holding the list's numbers.
Float_(A) == [j \in 1..Len(A) |-> FromTenths(A[j])]

\* Shapes (n,) and (m,) broadcast when n = m or one of them is 1.
Broadcastable(A, B) == Len(A) = Len(B) \/ Len(A) = 1 \/ Len(B) = 1

\* Index into an operand of a broadcast operation: a length-1 operand is
\* repeated.
At(A, n, j) == IF Len(A) = 1 /\ n # 1 THEN A[1] ELSE A[j]
BLen(A, B) == IF Len(A) = Len(B) THEN Len(A) ELSE IF Len(A) = 1 THEN Len(B) ELSE Len(A)

AMul(A, B) == [j \in 1..BLen(A, B) |-> FMul(At(A, BLen(A, B), j), At(B, BLen(A, B), j))]
AAdd(A, B) == [j \in 1..BLen(A, B) |-> FAdd(At(A, BLen(A, B), j), At(B, BLen(A, B), j))]
\* 1 - A and np.log(A), element by element.
OneMinus(A) == [j \in 1..Len(A) |-> FSub(One, A[j])]
ALog(A) == [j \in 1..Len(A) |-> Log(A[j])]

\* np.sum(A): the elements added in index order, from 0.
RECURSIVE NpSum(_)
NpSum(A) == IF Len(A) = 0 THEN Zero ELSE FAdd(NpSum(SubSeq(A, 1, Len(A) - 1)), A[Len(A)])

\* Mutant of Terms: the (1 - Y) * np.log(1 - P) half is missing.
TermsFirstHalf(Yl, Pl) == AMul(Yl, ALog(Pl))

\* The array summed on line 10 of cross_entropy.
Terms(Yl, Pl) == AAdd(AMul(Yl, ALog(Pl)), AMul(OneMinus(Yl), ALog(OneMinus(Pl))))

\* Mutant of Loss: the leading minus sign is missing.
LossNoMinus(Yl, Pl) == NpSum(Terms(Yl, Pl))

\* The value line 10 returns.
Loss(Yl, Pl) == FNeg(NpSum(Terms(Yl, Pl)))

\* -------------------------------------------------------------- state

Frames == 1..NFrames

VARIABLES
  fn,           \* the function the callers call
  L,            \* the caller's list passed to softmax
  Y, P,         \* the caller's lists passed to cross_entropy
  pc,           \* per call frame: where the call stands
  i,            \* per frame: how many elements the running for loop has taken
  denominator,  \* per frame: softmax's local denominator
  result,       \* per frame: softmax's local result
  Yf, Pf,       \* per frame: cross_entropy's locals Y and P once rebound
  ret,          \* per frame: what the last call returned or raised
  calls,        \* calls the callers have yet to start
  returned      \* every outcome a call has produced so far

vars == <<fn, L, Y, P, pc, i, denominator, result, Yf, Pf, ret, calls, returned>>

Outcome(kind, val, list, err) == [kind |-> kind, val |-> val, list |-> list, err |-> err]
NoOutcome == Outcome("none", Zero, <<>>, "")
Returned(x) == Outcome("value", x, <<>>, "")
ReturnedList(r) == Outcome("list", Zero, r, "")
Raised(err) == Outcome("error", Zero, <<>>, err)

\* Mutant of Local: the variable is a module-level global every frame
\* shares.
Global(v, f, x) == [g \in DOMAIN v |-> x]

\* Assignment to a local variable of frame f: other frames keep theirs.
Local(v, f, x) == [v EXCEPT ![f] = x]

IdleFrames ==
  /\ pc = [f \in Frames |-> "idle"]
  /\ i = [f \in Frames |-> 0]
  /\ denominator = [f \in Frames |-> Zero]
  /\ result = [f \in Frames |-> <<>>]
  /\ Yf = [f \in Frames |-> <<>>]
  /\ Pf = [f \in Frames |-> <<>>]
  /\ ret = [f \in Frames |-> NoOutcome]
  /\ returned = {}

InitSoftmax(S, n) ==
  /\ fn = "softmax"
  /\ L \in SeqsUpTo(S, n)
  /\ Y = <<>> /\ P = <<>>

InitCrossEntropy(SY, SP, n) ==
  /\ fn = "cross_entropy"
  /\ L = <<>>
  /\ Y \in SeqsUpTo(SY, n) /\ P \in SeqsUpTo(SP, n)

InitQuiz ==
  /\ fn = "cross_entropy"
  /\ L = <<>>
  /\ Y = QuizY /\ P \in {QuizP, QuizP9}

Init ==
  /\ IdleFrames
  /\ calls = 1
  /\ \/ InitSoftmax(Scores, MaxLen)
     \/ InitCrossEntropy(Labels, Probs, MaxLenCE)
     \/ InitQuiz

\* ------------------------------------------------------------ softmax

\* def softmax(L): denominator = 0
SoftmaxCall(f) ==
  /\ fn = "softmax" /\ pc[f] \in {"idle", "done"} /\ calls > 0
  /\ denominator' = Local(denominator, f, Zero)
  /\ i' = [i EXCEPT ![f] = 0]
  /\ pc' = [pc EXCEPT ![f] = "sum"]
  /\ calls' = calls - 1
  /\ UNCHANGED <<fn, L, Y, P, result, Yf, Pf, ret, returned>>

\* Mutant of SoftmaxSum: denominator = np.exp(i) in place of +=.
SoftmaxSumOverwrite(f) ==
  /\ pc[f] = "sum" /\ i[f] < Len(L)
  /\ denominator' = Local(denominator, f, Exp(L[i[f] + 1]))
  /\ i' = [i EXCEPT ![f] = i[f] + 1]
  /\ UNCHANGED <<fn, L, Y, P, pc, result, Yf, Pf, ret, calls, returned>>

\* for i in L: denominator += np.exp(i)
SoftmaxSum(f) ==
  /\ pc[f] = "sum" /\ i[f] < Len(L)
  /\ denominator' = Local(denominator, f, FAdd(denominator[f], Exp(L[i[f] + 1])))
  /\ i' = [i EXCEPT ![f] = i[f] + 1]
  /\ UNCHANGED <<fn, L, Y, P, pc, result, Yf, Pf, ret, calls, returned>>

\* Mutant of SoftmaxResult: the reciprocal 1/denominator is taken before the
\* second loop, which raises ZeroDivisionError on the integer 0 an empty L
\* leaves in denominator.
SoftmaxResultReciprocal(f) ==
  /\ pc[f] = "sum" /\ i[f] = Len(L)
  /\ result' = Local(result, f, <<>>)
  /\ i' = [i EXCEPT ![f] = 0]
  /\ IF Len(L) = 0
     THEN /\ pc' = [pc EXCEPT ![f] = "done"]
          /\ ret' = [ret EXCEPT ![f] = Raised("ZeroDivisionError")]
          /\ returned' = returned \cup {Raised("ZeroDivisionError")}
     ELSE /\ pc' = [pc EXCEPT ![f] = "div"]
          /\ UNCHANGED <<ret, returned>>
  /\ UNCHANGED <<fn, L, Y, P, denominator, Yf, Pf, calls>>

\* The first loop is exhausted: result = []
SoftmaxResult(f) ==
  /\ pc[f] = "sum" /\ i[f] = Len(L)
  /\ result' = Local(result, f, <<>>)
  /\ i' = [i EXCEPT ![f] = 0]
  /\ pc' = [pc EXCEPT ![f] = "div"]
  /\ UNCHANGED <<fn, L, Y, P, denominator, Yf, Pf, ret, calls, returned>>

\* Mutant of SoftmaxDiv: the operands of the division are swapped.
SoftmaxDivInverted(f) ==
  /\ pc[f] = "div" /\ i[f] < Len(L)
  /\ result' = Local(result, f, Append(result[f], FDiv(denominator[f], Exp(L[i[f] + 1]))))
  /\ i' = [i EXCEPT ![f] = i[f] + 1]
  /\ UNCHANGED <<fn, L, Y, P, pc, denominator, Yf, Pf, ret, calls, returned>>

\* Mutant of SoftmaxDiv: result.insert(0, ...) in place of result.append.
SoftmaxDivPrepend(f) ==
  /\ pc[f] = "div" /\ i[f] < Len(L)
  /\ result' = Local(result, f, <<FDiv(Exp(L[i[f] + 1]), denominator[f])>> \o result[f])
  /\ i' = [i EXCEPT ![f] = i[f] + 1]
  /\ UNCHANGED <<fn, L, Y, P, pc, denominator, Yf, Pf, ret, calls, returned>>

\* for i in L: result.append(np.exp(i)/denominator)
SoftmaxDiv(f) ==
  /\ pc[f] = "div" /\ i[f] < Len(L)
  /\ result' = Local(result, f, Append(result[f], FDiv(Exp(L[i[f] + 1]), denominator[f])))
  /\ i' = [i EXCEPT ![f] = i[f] + 1]
  /\ UNCHANGED <<fn, L, Y, P, pc, denominator, Yf, Pf, ret, calls, returned>>

\* The second loop is exhausted: return result
SoftmaxReturn(f) ==
  /\ pc[f] = "div" /\ i[f] = Len(L)
  /\ ret' = [ret EXCEPT ![f] = ReturnedList(result[f])]
  /\ returned' = returned \cup {ReturnedList(result[f])}
  /\ pc' = [pc EXCEPT ![f] = "done"]
  /\ UNCHANGED <<fn, L, Y, P, i, denominator, result, Yf, Pf, calls>>

\* ------------------------------------------------------ cross_entropy

\* def cross_entropy(Y, P): Y = np.float_(Y)
CrossEntropyCall(f) ==
  /\ fn = "cross_entropy" /\ pc[f] \in {"idle", "done"} /\ calls > 0
  /\ Yf' = Local(Yf, f, Float_(Y))
  /\ pc' = [pc EXCEPT ![f] = "line9"]
  /\ calls' = calls - 1
  /\ UNCHANGED <<fn, L, Y, P, i, denominator, result, Pf, ret, returned>>

\* P = np.float_(P)
CrossEntropyP(f) ==
  /\ pc[f] = "line9"
  /\ Pf' = Local(Pf, f, Float_(P))
  /\ pc' = [pc EXCEPT ![f] = "line10"]
  /\ UNCHANGED <<fn, L, Y, P, i, denominator, result, Yf, ret, calls, returned>>

\* return -np.sum(Y * np.log(P) + (1 - Y) * np.log(1 - P))
CrossEntropyReturn(f) ==
  /\ pc[f] = "line10" /\ Broadcastable(Yf[f], Pf[f])
  /\ LET out == Returned(Loss(Yf[f], Pf[f]))
     IN ret' = [ret EXCEPT ![f] = out] /\ returned' = returned \cup {out}
  /\ pc' = [pc EXCEPT ![f] = "done"]
  /\ UNCHANGED <<fn, L, Y, P, i, denominator, result, Yf, Pf, calls>>

\* Y * np.log(P) with shapes that do not broadcast: numpy raises ValueError.
CrossEntropyRaise(f) ==
  /\ pc[f] = "line10" /\ ~Broadcastable(Yf[f], Pf[f])
  /\ ret' = [ret EXCEPT ![f] = Raised("ValueError")]
  /\ returned' = returned \cup {Raised("ValueError")}
  /\ pc' = [pc EXCEPT ![f] = "done"]
  /\ UNCHANGED <<fn, L, Y, P, i, denominator, result, Yf, Pf, calls>>

Step(f) ==
  \/ SoftmaxCall(f)
  \/ SoftmaxSum(f)
  \/ SoftmaxResult(f)
  \/ SoftmaxDiv(f)
  \/ SoftmaxReturn(f)
  \/ CrossEntropyCall(f)
  \/ CrossEntropyP(f)
  \/ CrossEntropyReturn(f)
  \/ CrossEntropyRaise(f)

\* One caller making one call.
Next ==
  \/ SoftmaxCall(1)
  \/ SoftmaxSum(1)
  \/ SoftmaxResult(1)
  \/ SoftmaxDiv(1)
  \/ SoftmaxReturn(1)
  \/ CrossEntropyCall(1)
  \/ CrossEntropyP(1)
  \/ CrossEntropyReturn(1)
  \/ CrossEntropyRaise(1)

Spec == Init /\ [][Next]_vars

\* Scores, labels and probabilities of concurrent callers.
CallScores == {0, 7, 710}
CallLabels == {0, 10}
CallProbs == {0, 4}

InitCalls ==
  /\ IdleFrames
  /\ calls = MaxCalls
  /\ \/ InitSoftmax(CallScores, MaxLenCalls)
     \/ InitCrossEntropy(CallLabels, CallProbs, MaxLenCalls)

\* Independent callers calling again and again with the same arguments,
\* their calls interleaved statement by statement.
NextCalls == \E f \in Frames : Step(f)

SpecCalls == InitCalls /\ [][NextCalls]_vars

\* ------------------------------------------------------------ claims

SoftmaxDone == fn = "softmax" /\ pc[1] = "done"
CrossEntropyDone == fn = "cross_entropy" /\ pc[1] = "done"

\* The sum of np.exp(x) over all of A, added in list order from 0.
RECURSIVE SumExp(_)
SumExp(A) == IF Len(A) = 0 THEN Zero ELSE FAdd(SumExp(SubSeq(A, 1, Len(A) - 1)), Exp(A[Len(A)]))

\* The sum of the exponentials is a finite, nonzero number: no exponential
\* overflowed and not all of them underflowed to 0.
DenominatorOK == IsFin(SumExp(L)) /\ ~IsZero(SumExp(L))

FAbs(x) == IF IsNaN(x) THEN x ELSE [x EXCEPT !.s = 1]

\* |x - 1| <= ulps * 2^-Prec
WithinOfOne(x, ulps) == FLe(FAbs(FSub(x, One)), Round(1, ulps, -Prec))

\* |x - num/den| <= tol/den, for a finite x of moderate size.
Near(x, num, den, tol) ==
  /\ IsFin(x) /\ x.e <= 0 /\ x.e >= -16
  /\ Abs(x.s * x.m * den - num * Pow2(-x.e)) <= tol * Pow2(-x.e)

\* C1 as stated: for every non-empty L, softmax(L) has len(L) values and
\* they sum to 1 within the tolerance.
C1_Original ==
  (SoftmaxDone /\ Len(L) >= 1) =>
    /\ Len(ret[1].list) = Len(L)
    /\ WithinOfOne(NpSum(ret[1].list), 2 * Len(L))

\* C1 as amended: softmax(L) has len(L) values for every L; for a non-empty
\* L whose exponentials have a finite nonzero sum they sum to 1 within the
\* tolerance (2 * len(L) units in the last place of 1).
C1_LengthAndSum ==
  SoftmaxDone =>
    /\ ret[1].kind = "list" /\ Len(ret[1].list) = Len(L)
    /\ (Len(L) >= 1 /\ DenominatorOK) => WithinOfOne(NpSum(ret[1].list), 2 * Len(L))

C1_Witness ==
  /\ SoftmaxDone /\ L = <<5, 6, 7>> /\ DenominatorOK
  /\ WithinOfOne(NpSum(ret[1].list), 2 * Len(L))

\* C2 as stated: for every L of length N >= 1 every value of softmax(L)
\* lies strictly between 0 and 1.
C2_Original ==
  (SoftmaxDone /\ Len(L) >= 1) =>
    \A j \in 1..Len(ret[1].list) : FLt(Zero, ret[1].list[j]) /\ FLt(ret[1].list[j], One)

\* C2 as amended: when the exponentials have a finite nonzero sum every
\* value of softmax(L) lies in the closed interval [0, 1], and for N = 1
\* the single value is exactly 1.
C2_ClosedUnitInterval ==
  (SoftmaxDone /\ Len(L) >= 1 /\ DenominatorOK) =>
    /\ \A j \in 1..Len(ret[1].list) : FLe(Zero, ret[1].list[j]) /\ FLe(ret[1].list[j], One)
    /\ Len(L) = 1 => ret[1].list = <<One>>

\* Both ends of the interval are returned: softmax([-746, 0]) = [0.0, 1.0].
C2_Witness == SoftmaxDone /\ L = <<-746, 0>> /\ DenominatorOK /\ ret[1].list = <<Zero, One>>

\* C3: cross_entropy(Y, P) with len(Y) # len(P) ends in an error (numpy's
\* ValueError counts as the InvalidInput error) and returns no loss.
C3_MismatchRaises ==
  (CrossEntropyDone /\ Len(Y) # Len(P)) => ret[1].kind = "error"

\* The formula's sum over the first n index pairs, term by term.
RECURSIVE FormulaSum(_, _, _)
FormulaSum(Yt, Pt, n) ==
  IF n = 0 THEN Zero
  ELSE FAdd(FormulaSum(Yt, Pt, n - 1),
            FAdd(FMul(FromTenths(Yt[n]), Log(FromTenths(Pt[n]))),
                 FMul(FSub(One, FromTenths(Yt[n])), Log(FSub(One, FromTenths(Pt[n]))))))

StrictlyInside(Pt) == \A j \in 1..Len(Pt) : Pt[j] \in 1..9

\* C4: for equal-length Y (values in [0,1]) and P (values strictly inside
\* (0,1)), cross_entropy(Y, P) returns -sum_i [y_i ln p_i + (1-y_i) ln(1-p_i)],
\* one term per index pair.
C4_Formula ==
  (CrossEntropyDone /\ Len(Y) = Len(P) /\ StrictlyInside(P)) =>
    ret[1] = Returned(FNeg(FormulaSum(Y, P, Len(Y))))

C4_Witness ==
  /\ CrossEntropyDone /\ Y = <<10, 0>> /\ P = <<4, 6>>
  /\ ret[1].kind = "value" /\ IsFin(ret[1].val) /\ ~IsZero(ret[1].val)

\* C5 as stated: cross_entropy([1,0,1,1], [0.4,0.6,0.9,0.5]) is roughly
\* 4.8283137373.
C5_Original ==
  (CrossEntropyDone /\ Y = QuizY /\ P = QuizP9) => Near(ret[1].val, 4828, 1000, 5)

\* C5 as amended: cross_entropy([1,0,1,1], [0.4,0.6,0.9,0.5]) is the
\* formula's value for those inputs, roughly 2.6310891600; 4.8283137373 is
\* the loss of [0.4,0.6,0.1,0.5].
C5_QuizValue ==
  /\ (CrossEntropyDone /\ Y = QuizY /\ P = QuizP9) =>
       ret[1].kind = "value" /\ Near(ret[1].val, 2631, 1000, 5)
  /\ (CrossEntropyDone /\ Y = QuizY /\ P = QuizP) =>
       ret[1].kind = "value" /\ Near(ret[1].val, 4828, 1000, 5)

C5_Witness == CrossEntropyDone /\ Y = QuizY /\ P = QuizP9 /\ Near(ret[1].val, 2631, 1000, 5)

Contradicts(Yt, Pt, j) == (Pt[j] = 0 /\ Yt[j] = 10) \/ (Pt[j] = 10 /\ Yt[j] = 0)

\* C6: for equal-length Y and P with an index where p = 0 and y = 1, or
\* p = 1 and y = 0, cross_entropy(Y, P) returns +infinity whatever the
\* other indices hold.
C6_ContradictionIsInfinite ==
  (CrossEntropyDone /\ Len(Y) = Len(P) /\ \E j \in 1..Len(Y) : Contradicts(Y, P, j)) =>
    ret[1] = Returned(PInf)

\* C7: for equal-length Y and P with all values in [0,1], the loss
\* cross_entropy(Y, P) returns is >= 0 (possibly +infinity).
C7_NonNegative ==
  (CrossEntropyDone /\ Len(Y) = Len(P)) =>
    ret[1].kind = "value" /\ FLe(Zero, ret[1].val)

\* C8 as stated: softmax called with an empty list raises an error.
C8_Original == (SoftmaxDone /\ L = <<>>) => ret[1].kind = "error"

\* C8 as amended: softmax called with an empty list returns the empty
\* list; it raises nothing and divides nothing.
C8_EmptyReturnsEmpty ==
  (SoftmaxDone /\ L = <<>>) => ret[1] = ReturnedList(<<>>) /\ denominator[1] = Zero

C8_Witness == SoftmaxDone /\ L = <<>> /\ ret[1] = ReturnedList(<<>>)

\* C9: softmax(L) returns at each position j the quotient exp(L[j]) / D,
\* D the sum of exp over all of L, complete before the first quotient is
\* formed, in input order and with no shift; softmax([5,6,7]) is
\* [0.0900, 0.2447, 0.6652] to the format's accuracy.
C9_Quotients ==
  /\ (fn = "softmax" /\ pc[1] = "div") =>
       /\ denominator[1] = SumExp(L)
       /\ result[1] = [j \in 1..i[1] |-> FDiv(Exp(L[j]), SumExp(L))]
  /\ SoftmaxDone =>
       ret[1] = ReturnedList([j \in 1..Len(L) |-> FDiv(Exp(L[j]), SumExp(L))])
  /\ (SoftmaxDone /\ L = <<5, 6, 7>>) =>
       /\ Near(ret[1].list[1], 900, 10000, 10)
       /\ Near(ret[1].list[2], 2447, 10000, 10)
       /\ Near(ret[1].list[3], 6652, 10000, 10)

C9_Witness == SoftmaxDone /\ L = <<5, 6, 7>> /\ Near(ret[1].list[3], 6652, 10000, 10)

\* C10: no call changes the caller's lists L, Y and P, and every call with
\* the same arguments, repeated or interleaved with others, produces the
\* same outcome.
C10_NoSideEffects ==
  [][L' = L /\ Y' = Y /\ P' = P /\ Cardinality(returned') <= 1]_vars

\* Two interleaved callers have both returned, one of them twice.
C10_Witness ==
  /\ \A f \in Frames : pc[f] = "done"
  /\ calls = 0
  /\ Cardinality(returned) = 1

====
